-------------------------- MODULE Spec2Model --------------------------
(***************************************************************************)
(* lifesaver.bot.storage.AsyncJSONStorage: an in-memory dict persisted to  *)
(* one JSON file.  The event loop runs the coroutines put/delete/save/load *)
(* (one step up to each suspension point); _save and _load run on executor *)
(* threads, one statement group per step, concurrently with the loop.      *)
(***************************************************************************)
EXTENDS Integers, Sequences, FiniteSets, TLC

(* ------------------------------ bounds -------------------------------- *)
\* Calls of put/delete/save/load issued over a run.
MaxOps == 2
\* Calls the host cancels over a run.
MaxCancels == 1
\* Filesystem failures (OSError) injected over a run.
MaxFaults == 1

OpIds == 1..MaxOps

(* --------------------------- Python values ---------------------------- *)
\* A Python object: an int, a str, or an object json cannot encode.
PyInt(n) == [kind |-> "int", n |-> n, s |-> ""]
PyStr(s) == [kind |-> "str", n |-> 0, s |-> s]
PyObject == [kind |-> "object", n |-> 0, s |-> ""]

\* Keys and values the callers pass to put and delete.
CallKeys == {PyInt(5), PyStr("k")}
Values == {PyInt(1), PyObject}
\* Keys the callers look up.
LookupKeys == CallKeys \cup {PyStr("5")}

Digits == <<"0", "1", "2", "3", "4", "5", "6", "7", "8", "9">>

RECURSIVE IntToStr(_)
IntToStr(n) ==
    IF n < 10 THEN Digits[n + 1]
    ELSE IntToStr(n \div 10) \o Digits[(n % 10) + 1]

StrToInt(s) == CHOOSE n \in 0..99 : IntToStr(n) = s

\* str(key)
Str(key) ==
    CASE key.kind = "int" -> PyStr(IntToStr(key.n))
      [] key.kind = "str" -> key
      [] OTHER -> PyStr("<object>")

(* ------------------------------- dict --------------------------------- *)
\* A dict is the sequence of its items in insertion order, keys unique.
EmptyDict == <<>>
Item(k, v) == [k |-> k, v |-> v]
DictKeys(d) == {d[i].k : i \in 1..Len(d)}
DictHas(d, k) == k \in DictKeys(d)
DictGet(d, k) == d[CHOOSE i \in 1..Len(d) : d[i].k = k].v
DictSet(d, k, v) ==
    IF DictHas(d, k)
    THEN [i \in 1..Len(d) |-> IF d[i].k = k THEN Item(k, v) ELSE d[i]]
    ELSE Append(d, Item(k, v))
DictDel(d, k) == SelectSeq(d, LAMBDA e : e.k # k)
\* dict equality ignores the order of the items
DictEq(d, e) ==
    /\ DictKeys(d) = DictKeys(e)
    /\ \A k \in DictKeys(d) : DictGet(d, k) = DictGet(e, k)

(* ------------------------------- JSON --------------------------------- *)
\* A document is the sequence of the tokens json.dump writes.
Tok(t, s) == [t |-> t, s |-> s]
LBrace == Tok("punct", "{")
RBrace == Tok("punct", "}")

Encodable(v) == v.kind \in {"int", "str"}
\* JSONEncoder: an int key is written as its decimal string
EncodeKey(k) == Tok("str", Str(k).s)
\* EncodeValue of an encoder that writes every value as a string
EncodeValueQuotes(v) == Tok("str", IF v.kind = "int" THEN IntToStr(v.n) ELSE v.s)
EncodeValue(v) == IF v.kind = "int" THEN Tok("num", IntToStr(v.n)) ELSE Tok("str", v.s)
DecodeValue(tok) == IF tok.t = "num" THEN PyInt(StrToInt(tok.s)) ELSE PyStr(tok.s)

\* Index of the first item json.dump cannot encode, Len(d) + 1 when none.
FirstBad(d) ==
    IF \E i \in 1..Len(d) : ~Encodable(d[i].v)
    THEN CHOOSE i \in 1..Len(d) :
            /\ ~Encodable(d[i].v)
            /\ \A h \in 1..(i - 1) : Encodable(d[h].v)
    ELSE Len(d) + 1

RECURSIVE EncodeItems(_, _)
\* the tokens of items 1..n
EncodeItems(d, n) ==
    IF n = 0 THEN <<>>
    ELSE EncodeItems(d, n - 1) \o <<EncodeKey(d[n].k), EncodeValue(d[n].v)>>

CanDump(d) == FirstBad(d) > Len(d)
\* json.dump(d, fp) of an encodable dict: the whole document
DumpText(d) == <<LBrace>> \o EncodeItems(d, Len(d)) \o <<RBrace>>
\* what json.dump has written when the encoder raises TypeError: everything
\* up to and including the key of the item it cannot encode
DumpPartial(d) ==
    <<LBrace>> \o EncodeItems(d, FirstBad(d) - 1) \o <<EncodeKey(d[FirstBad(d)].k)>>

\* json.load accepts the text iff it is {, key/value pairs, }
WellFormed(text) ==
    /\ Len(text) >= 2
    /\ Len(text) % 2 = 0
    /\ text[1] = LBrace
    /\ text[Len(text)] = RBrace
    /\ \A i \in 2..(Len(text) - 1) :
          IF i % 2 = 0 THEN text[i].t = "str" ELSE text[i].t \in {"num", "str"}

RECURSIVE DecodeItems(_, _)
\* the dict of the first n pairs; a repeated key keeps its last value
DecodeItems(text, n) ==
    IF n = 0 THEN EmptyDict
    ELSE DictSet(DecodeItems(text, n - 1),
                 PyStr(text[2 * n].s), DecodeValue(text[2 * n + 1]))

ParseText(text) == DecodeItems(text, (Len(text) - 2) \div 2)

(* ------------------------------- files -------------------------------- *)
NoFile == [exists |-> FALSE, text |-> <<>>]
File(text) == [exists |-> TRUE, text |-> text]

\* Files the target path may hold when the store is constructed.
InitFiles ==
    { NoFile,
      File(DumpText(<<Item(PyStr("5"), PyStr("x")), Item(PyStr("k"), PyInt(1))>>)) }


(* ------------------------------- state -------------------------------- *)
VARIABLES
    data,      \* self._data
    disk,      \* the file at self.file
    tmp,       \* tmp[j]: the file "<uuid4>.tmp" of the _save run for call j
    lock,      \* self.lock: the call holding it, 0 when unlocked
    waiters,   \* self.lock's queue of calls waiting in acquire()
    ops,       \* the calls issued so far, in order: frame while in flight, then outcome
    jobs,      \* jobs[j]: the executor's run of _save/_load for call j
    faults,    \* filesystem failures so far
    cancels,   \* cancellations so far
    origin,    \* the file at self.file when the store was constructed
    cwd,       \* the process's current working directory
    view,      \* the dict a caller got from all(), as the caller holds it
    load_list, \* LoadList.data
    \* history variables: they record the run and decide nothing
    built,     \* the last build of the load list: what it was given and found
    history,   \* every value self._data has had
    copied,    \* the _save runs in the order they copied self._data
    renamed,   \* the _save runs in the order they replaced the target
    log        \* the puts issued, when the callers only put (PutsSpec)

vars == <<data, disk, tmp, lock, waiters, ops, jobs, faults, cancels,
          origin, cwd, view, load_list, built, history, copied, renamed, log>>

\* what no step of the store changes
fixed == <<origin, cwd, load_list, built>>

NoKey == PyStr("")
NoValue == PyInt(0)
\* a call in flight: its name, its arguments, where it stands, and (history)
\* whether another call has written its key since it started
OpRec(name, key, value, status) ==
    [name |-> name, key |-> key, value |-> value, status |-> status, hit |-> FALSE]
\* a call that has ended: its frame is gone, its outcome is what the caller saw
EndedOp(status) == OpRec("ended", NoKey, NoValue, status)
\* KeyError carries the key it was raised for
KeyErrorOp(key) == OpRec("delete", key, NoValue, "KeyError")

\* a run of fn on an executor thread: where it stands, and the dict it holds
\* (_save's copy of self._data, _load's decoded document)
Job(fn, pc, snap) == [fn |-> fn, pc |-> pc, snap |-> snap]
IdleJob == Job("none", "none", EmptyDict)
\* the function save() or load() hands to the executor for a call
Fn(name) == IF name = "load" THEN "_load" ELSE "_save"

\* statuses of a call still in flight, and of a call that has ended
InFlight == {"waiting", "running"}
Ended == {"ok", "error", "KeyError", "cancelled"}

IsLoad(j) == jobs[j].fn = "_load"
IsSave(j) == jobs[j].fn = "_save"

(* -------------------------- history bookkeeping ----------------------- *)
\* ops with every put/delete in flight on `slot` marked: another call puts or
\* deletes that key
MarkWritten(slot) ==
    [i \in 1..Len(ops) |->
        IF ops[i].status \in InFlight /\ ops[i].name \in {"put", "delete"}
           /\ Str(ops[i].key) = slot
        THEN [ops[i] EXCEPT !.hit = TRUE] ELSE ops[i]]

\* ops with every delete in flight (but call j's own) marked whose key is in
\* d, the dict that the run of call j brings back: into self._data (a _load),
\* or onto the disk after the delete's own _save has replaced the target
MarkRestored(j, d, onDisk) ==
    [i \in 1..Len(ops) |->
        IF i # j /\ ops[i].status \in InFlight /\ ops[i].name = "delete"
           /\ DictHas(d, Str(ops[i].key))
           /\ (onDisk => jobs[i].pc = "done")
        THEN [ops[i] EXCEPT !.hit = TRUE] ELSE ops[i]]

(* --------------------------- _load, __init__ -------------------------- *)
\* LoadResult of a _load that also catches the decode error (ValueError)
LoadResultResets(f) ==
    IF f.exists /\ WellFormed(f.text) THEN [err |-> "none", dict |-> ParseText(f.text)]
    ELSE [err |-> "FileNotFoundError", dict |-> EmptyDict]

\* _load's try block: open(self.file, "r") and json.load
LoadResult(f) ==
    IF ~f.exists THEN [err |-> "FileNotFoundError", dict |-> EmptyDict]
    ELSE IF WellFormed(f.text) THEN [err |-> "none", dict |-> ParseText(f.text)]
    ELSE [err |-> "JSONDecodeError", dict |-> EmptyDict]

\* FileAfterLoad with an open mode that creates a missing file
FileAfterLoadCreates(f) == IF f.exists THEN f ELSE File(<<LBrace, RBrace>>)

\* the target once _load has tried to open it for reading: as it was
FileAfterLoad(f) == f

\* __init__ returns a store unless its _load() raises
Constructed == LoadResult(origin).err # "JSONDecodeError"

\* the directory of self.file, and the directories the process may run in
TargetDir == "data"
Dirs == {TargetDir, "run"}

\* nothing got from all() yet
NoView == [held |-> FALSE, alias |-> FALSE, dict |-> EmptyDict]
\* the caller's dict after self._data is changed in place to d: the same
\* object as long as self._data has not been rebound
Seen(d) == IF view.alias THEN [view EXCEPT !.dict = d] ELSE view

\* no build of the load list yet
NoBuild == [exts_path |-> <<>>, entries |-> <<>>, imports |-> <<>>]

\* the state __init__ leaves: _data = {}, a fresh lock, then _load(); the
\* file is one of `files`, the process runs in one of `dirs`
InitOn(files, dirs) ==
    /\ origin \in files
    /\ cwd \in dirs
    /\ view = NoView
    /\ load_list = <<>>
    /\ built = NoBuild
    /\ disk = FileAfterLoad(origin)
    /\ data = LoadResult(origin).dict
    /\ tmp = [j \in OpIds |-> NoFile]
    /\ lock = 0
    /\ waiters = <<>>
    /\ ops = <<>>
    /\ jobs = [j \in OpIds |-> IdleJob]
    /\ faults = 0
    /\ cancels = 0
    /\ history = {data}
    /\ copied = <<>>
    /\ renamed = <<>>
    /\ log = <<>>

\* a store constructed on a file it can read, by a process running in the
\* directory of that file
Init == InitOn(InitFiles, {TargetDir})

(* --------------------------- read operations -------------------------- *)
Missing == [kind |-> "none", n |-> 0, s |-> ""]
\* get(key, *args): None (or the default) when absent
Get(key) == IF DictHas(data, Str(key)) THEN DictGet(data, Str(key)) ELSE Missing
\* __contains__
Contains(key) == DictHas(data, Str(key))
\* __getitem__ (KeyError when the key is absent)
GetItem(key) == IF DictHas(data, Str(key)) THEN DictGet(data, Str(key)) ELSE Missing
\* __len__
Size == Len(data)
\* all()
All == data

(* ------------------------ save() / load() entry ----------------------- *)
\* asyncio.Lock.acquire takes the lock at once iff it is unlocked; release
\* passes it on (Release), so it is unlocked only when nobody waits
LockFree == lock = 0

\* EnterLocked with a save that is skipped when another one holds the lock
EnterLockedSkipsWhenBusy(name, key, value, ops1) ==
    LET i == Len(ops) + 1 IN
    /\ Constructed
    /\ Len(ops) < MaxOps
    /\ IF LockFree
       THEN /\ lock' = i
            /\ waiters' = waiters
            /\ jobs' = [jobs EXCEPT ![i] = Job(Fn(name), "pending", EmptyDict)]
            /\ ops' = Append(ops1, OpRec(name, key, value, "running"))
       ELSE /\ ops' = Append(ops1, EndedOp("ok"))
            /\ UNCHANGED <<lock, waiters, jobs>>

\* `async with self.lock: await self.loop.run_in_executor(None, fn)` up to its
\* first suspension, for the new call `name`: either the lock is taken and fn
\* handed to the executor, or the call queues on the lock.  ops1 is ops as the
\* caller's statements before it left them.
EnterLocked(name, key, value, ops1) ==
    LET i == Len(ops) + 1 IN
    /\ Constructed
    /\ Len(ops) < MaxOps
    /\ IF LockFree
       THEN /\ lock' = i
            /\ waiters' = waiters
            /\ jobs' = [jobs EXCEPT ![i] = Job(Fn(name), "pending", EmptyDict)]
            /\ ops' = Append(ops1, OpRec(name, key, value, "running"))
       ELSE /\ lock' = lock
            /\ waiters' = Append(waiters, i)
            /\ jobs' = jobs
            /\ ops' = Append(ops1, OpRec(name, key, value, "waiting"))

\* asyncio.Lock.release by call i, which ends with `status`: the lock passes
\* to the first queued call, which hands its function to the executor; with
\* nobody queued the lock is unlocked.  jobs1 is jobs with i's run settled.
Release(i, status, jobs1) ==
    IF waiters = <<>>
    THEN /\ lock' = 0
         /\ waiters' = waiters
         /\ ops' = [ops EXCEPT ![i] = EndedOp(status)]
         /\ jobs' = jobs1
    ELSE /\ lock' = Head(waiters)
         /\ waiters' = Tail(waiters)
         /\ ops' = [ops EXCEPT ![i] = EndedOp(status), ![Head(waiters)].status = "running"]
         /\ jobs' = [jobs1 EXCEPT ![Head(waiters)] =
                                Job(Fn(ops[Head(waiters)].name), "pending", EmptyDict)]

Save ==
    /\ EnterLocked("save", NoKey, NoValue, ops)
    /\ UNCHANGED <<data, disk, tmp, faults, cancels, history, copied, renamed, fixed, view, log>>

Load ==
    /\ EnterLocked("load", NoKey, NoValue, ops)
    /\ UNCHANGED <<data, disk, tmp, faults, cancels, history, copied, renamed, fixed, view, log>>

\* Put with the key used as given
PutRawKey(key, value) ==
    /\ data' = DictSet(data, key, value)
    /\ history' = history \cup {data'}
    /\ view' = Seen(data')
    /\ EnterLocked("put", key, value, MarkWritten(Str(key)))
    /\ UNCHANGED <<disk, tmp, faults, cancels, copied, renamed, fixed>>

Put(key, value) ==
    /\ data' = DictSet(data, Str(key), value)
    /\ history' = history \cup {data'}
    /\ view' = Seen(data')
    /\ EnterLocked("put", key, value, MarkWritten(Str(key)))
    /\ UNCHANGED <<disk, tmp, faults, cancels, copied, renamed, fixed>>

\* Delete that discards the key if present (dict.pop(key, None)) and saves
DeleteIgnoresAbsent(key) ==
    /\ data' = DictDel(data, Str(key))
    /\ history' = history \cup {data'}
    /\ view' = Seen(data')
    /\ EnterLocked("delete", key, NoValue, MarkWritten(Str(key)))
    /\ UNCHANGED <<disk, tmp, faults, cancels, copied, renamed, fixed, log>>

\* Delete that removes the key from a copy of self._data
DeleteFromCopy(key) ==
    /\ Constructed
    /\ Len(ops) < MaxOps
    /\ IF DictHas(data, Str(key))
       THEN /\ EnterLocked("delete", key, NoValue, MarkWritten(Str(key)))
            /\ UNCHANGED <<data, history>>
       ELSE /\ ops' = Append(MarkWritten(Str(key)), KeyErrorOp(key))
            /\ UNCHANGED <<data, history, lock, waiters, jobs>>
    /\ UNCHANGED <<disk, tmp, faults, cancels, copied, renamed, fixed, view, log>>

Delete(key) ==
    /\ Constructed
    /\ Len(ops) < MaxOps
    /\ IF DictHas(data, Str(key))
       THEN /\ data' = DictDel(data, Str(key))
            /\ history' = history \cup {data'}
            /\ view' = Seen(data')
            /\ EnterLocked("delete", key, NoValue, MarkWritten(Str(key)))
       ELSE \* del raises KeyError
            /\ ops' = Append(MarkWritten(Str(key)), KeyErrorOp(key))
            /\ UNCHANGED <<data, history, view, lock, waiters, jobs>>
    /\ UNCHANGED <<disk, tmp, faults, cancels, copied, renamed, fixed, log>>

(* ------------------------- the executor: _save ------------------------ *)
\* how a run of _save/_load ends: its future carries the outcome while the
\* call still awaits it; a run whose call was cancelled just ends
JobEnd(j, outcome) ==
    IF ops[j].status = "running" THEN Job(jobs[j].fn, outcome, EmptyDict) ELSE IdleJob

\* SaveOpen that opens the target itself for writing
SaveOpenInPlace(j) ==
    /\ IsSave(j)
    /\ jobs[j].pc = "pending"
    /\ disk' = File(<<>>)
    /\ jobs' = [jobs EXCEPT ![j].pc = "opened"]
    /\ UNCHANGED <<data, tmp, lock, waiters, ops, faults, cancels, history, copied,
                 renamed, fixed, view, log>>

\* open(atomic_name, "w"): the temporary file exists and is empty
SaveOpen(j) ==
    /\ IsSave(j)
    /\ jobs[j].pc = "pending"
    /\ tmp' = [tmp EXCEPT ![j] = File(<<>>)]
    /\ jobs' = [jobs EXCEPT ![j].pc = "opened"]
    /\ UNCHANGED <<data, disk, lock, waiters, ops, faults, cancels, history, copied,
                 renamed, fixed, view, log>>

\* open(atomic_name, "w") raises OSError
SaveOpenFail(j) ==
    /\ IsSave(j)
    /\ jobs[j].pc = "pending"
    /\ faults < MaxFaults
    /\ faults' = faults + 1
    /\ jobs' = [jobs EXCEPT ![j] = JobEnd(j, "failed")]
    /\ UNCHANGED <<data, disk, tmp, lock, waiters, ops, cancels, history, copied,
                 renamed, fixed, view, log>>

\* what json.dump writes when no write fails
Written(d) == IF CanDump(d) THEN DumpText(d) ELSE DumpPartial(d)

\* json.dump(self._data.copy(), fp, ...) and the close of fp: the copy is
\* taken now; an unencodable value raises TypeError part-way
SaveDump(j) ==
    /\ IsSave(j)
    /\ jobs[j].pc = "opened"
    /\ copied' = Append(copied, j)
    /\ tmp' = [tmp EXCEPT ![j] = File(Written(data))]
    /\ jobs' = [jobs EXCEPT ![j] =
                  IF CanDump(data) THEN Job("_save", "dumped", data) ELSE JobEnd(j, "failed")]
    /\ UNCHANGED <<data, disk, lock, waiters, ops, faults, cancels, history, renamed, fixed, view, log>>

\* lengths of what json.dump may have written when a write raises OSError:
\* the first chunk only, or all it would write but the last chunk
PartialLens(d) == {1, Len(Written(d)) - 1}

\* a write of json.dump raises OSError: a proper prefix is in the file
SaveDumpFail(j) ==
    /\ IsSave(j)
    /\ jobs[j].pc = "opened"
    /\ faults < MaxFaults
    /\ faults' = faults + 1
    /\ copied' = Append(copied, j)
    /\ \E n \in PartialLens(data) :
          tmp' = [tmp EXCEPT ![j] = File(SubSeq(Written(data), 1, n))]
    /\ jobs' = [jobs EXCEPT ![j] = JobEnd(j, "failed")]
    /\ UNCHANGED <<data, disk, lock, waiters, ops, cancels, history, renamed, fixed, view, log>>

\* SaveReplace with the arguments swapped: os.replace(self.file, atomic_name)
SaveReplaceSwapped(j) ==
    /\ IsSave(j)
    /\ jobs[j].pc = "dumped"
    /\ disk' = NoFile
    /\ tmp' = [tmp EXCEPT ![j] = IF disk.exists THEN disk ELSE tmp[j]]
    /\ renamed' = Append(renamed, j)
    /\ jobs' = [jobs EXCEPT ![j] = JobEnd(j, IF disk.exists THEN "done" ELSE "failed")]
    /\ UNCHANGED <<data, lock, waiters, ops, faults, cancels, history, copied, fixed, view, log>>

\* os.replace(atomic_name, self.file)
SaveReplace(j) ==
    /\ IsSave(j)
    /\ jobs[j].pc = "dumped"
    /\ disk' = tmp[j]
    /\ tmp' = [tmp EXCEPT ![j] = NoFile]
    /\ renamed' = Append(renamed, j)
    /\ jobs' = [jobs EXCEPT ![j] = JobEnd(j, "done")]
    /\ ops' = MarkRestored(j, jobs[j].snap, TRUE)
    /\ UNCHANGED <<data, lock, waiters, faults, cancels, history, copied, fixed, view, log>>

\* SaveReplaceFail of a replace done as remove-then-rename: the rename fails
SaveReplaceFailAfterRemove(j) ==
    /\ IsSave(j)
    /\ jobs[j].pc = "dumped"
    /\ faults < MaxFaults
    /\ faults' = faults + 1
    /\ disk' = NoFile
    /\ jobs' = [jobs EXCEPT ![j] = JobEnd(j, "failed")]
    /\ UNCHANGED <<data, tmp, lock, waiters, ops, cancels, history, copied, renamed, fixed, view, log>>

\* os.replace raises OSError
SaveReplaceFail(j) ==
    /\ IsSave(j)
    /\ jobs[j].pc = "dumped"
    /\ faults < MaxFaults
    /\ faults' = faults + 1
    /\ jobs' = [jobs EXCEPT ![j] = JobEnd(j, "failed")]
    /\ UNCHANGED <<data, disk, tmp, lock, waiters, ops, cancels, history, copied,
                 renamed, fixed, view, log>>

(* ------------------------- the executor: _load ------------------------ *)
\* LoadRead of a _load that passes on FileNotFoundError: it keeps the dict
LoadReadKeepsOnMissing(j) ==
    /\ IsLoad(j)
    /\ jobs[j].pc = "pending"
    /\ disk' = FileAfterLoad(disk)
    /\ jobs' = [jobs EXCEPT ![j] =
                  IF LoadResult(disk).err = "JSONDecodeError"
                  THEN JobEnd(j, "failed")
                  ELSE Job("_load", "read",
                           IF disk.exists THEN LoadResult(disk).dict ELSE data)]
    /\ UNCHANGED <<data, tmp, lock, waiters, ops, faults, cancels, history, copied,
                 renamed, fixed, view, log>>

\* the right-hand side of line 61 (or FileNotFoundError): the file is read
\* and decoded; a decode error leaves the run
LoadRead(j) ==
    /\ IsLoad(j)
    /\ jobs[j].pc = "pending"
    /\ disk' = FileAfterLoad(disk)
    /\ jobs' = [jobs EXCEPT ![j] =
                  IF LoadResult(disk).err = "JSONDecodeError"
                  THEN JobEnd(j, "failed")
                  ELSE Job("_load", "read", LoadResult(disk).dict)]
    /\ UNCHANGED <<data, tmp, lock, waiters, ops, faults, cancels, history, copied,
                 renamed, fixed, view, log>>

\* open(self.file, "r") raises an OSError other than FileNotFoundError
LoadReadFail(j) ==
    /\ IsLoad(j)
    /\ jobs[j].pc = "pending"
    /\ faults < MaxFaults
    /\ faults' = faults + 1
    /\ jobs' = [jobs EXCEPT ![j] = JobEnd(j, "failed")]
    /\ UNCHANGED <<data, disk, tmp, lock, waiters, ops, cancels, history, copied,
                 renamed, fixed, view, log>>

\* LoadAssign of a _load that merges the document into the dict it has
LoadAssignMerges(j) ==
    /\ IsLoad(j)
    /\ jobs[j].pc = "read"
    /\ data' = SelectSeq(data, LAMBDA e : ~DictHas(jobs[j].snap, e.k)) \o jobs[j].snap
    /\ view' = [view EXCEPT !.alias = FALSE]
    /\ history' = history \cup {data'}
    /\ jobs' = [jobs EXCEPT ![j] = JobEnd(j, "done")]
    /\ ops' = MarkRestored(j, jobs[j].snap, FALSE)
    /\ UNCHANGED <<disk, tmp, lock, waiters, faults, cancels, copied, renamed, fixed, log>>

\* the assignment self._data = ... of line 61 or line 63
LoadAssign(j) ==
    /\ IsLoad(j)
    /\ jobs[j].pc = "read"
    /\ data' = jobs[j].snap
    /\ view' = [view EXCEPT !.alias = FALSE]
    /\ history' = history \cup {data'}
    /\ jobs' = [jobs EXCEPT ![j] = JobEnd(j, "done")]
    /\ ops' = MarkRestored(j, jobs[j].snap, FALSE)
    /\ UNCHANGED <<disk, tmp, lock, waiters, faults, cancels, copied, renamed, fixed, log>>

(* -------------------- the calls resume, or are cancelled -------------- *)
\* Complete of a save()/load() that releases the lock after the await with
\* no try/finally: a call that raises keeps it
CompleteHoldsLockOnError(i) ==
    /\ i \in 1..Len(ops)
    /\ ops[i].status = "running"
    /\ jobs[i].pc \in {"done", "failed"}
    /\ IF jobs[i].pc = "done"
       THEN Release(i, "ok", [jobs EXCEPT ![i] = IdleJob])
       ELSE /\ ops' = [ops EXCEPT ![i] = EndedOp("error")]
            /\ jobs' = [jobs EXCEPT ![i] = IdleJob]
            /\ UNCHANGED <<lock, waiters>>
    /\ UNCHANGED <<data, disk, tmp, faults, cancels, history, copied, renamed, fixed, view, log>>

\* the awaited future is done: the call leaves `async with` (the lock is
\* released) and returns, or raises what the run raised
Complete(i) ==
    /\ i \in 1..Len(ops)
    /\ ops[i].status = "running"
    /\ jobs[i].pc \in {"done", "failed"}
    /\ Release(i, IF jobs[i].pc = "done" THEN "ok" ELSE "error",
               [jobs EXCEPT ![i] = IdleJob])
    /\ UNCHANGED <<data, disk, tmp, faults, cancels, history, copied, renamed, fixed, view, log>>

\* the host cancels the call: CancelledError is raised at its await.  A call
\* queued on the lock leaves the queue.  A call awaiting the executor leaves
\* `async with`, so the lock is released; a run not yet started is dropped,
\* a run already started on its thread goes on.
Cancel(i) ==
    /\ i \in 1..Len(ops)
    /\ ops[i].status \in InFlight
    /\ cancels < MaxCancels
    /\ cancels' = cancels + 1
    /\ IF ops[i].status = "waiting"
       THEN /\ waiters' = SelectSeq(waiters, LAMBDA w : w # i)
            /\ ops' = [ops EXCEPT ![i] = EndedOp("cancelled")]
            /\ UNCHANGED <<lock, jobs>>
       ELSE Release(i, "cancelled",
                    [jobs EXCEPT ![i] =
                       IF jobs[i].pc \in {"pending", "done", "failed"}
                       THEN IdleJob ELSE jobs[i]])
    /\ UNCHANGED <<data, disk, tmp, faults, history, copied, renamed, fixed, view, log>>

(* ----------------------------- the system ----------------------------- *)
Next ==
    \/ \E key \in CallKeys, value \in Values : Put(key, value) /\ UNCHANGED log
    \/ \E key \in CallKeys : Delete(key)
    \/ Save
    \/ Load
    \/ \E j \in OpIds : SaveOpen(j)
    \/ \E j \in OpIds : SaveDump(j)
    \/ \E j \in OpIds : SaveReplace(j)
    \/ \E j \in OpIds : LoadRead(j)
    \/ \E j \in OpIds : LoadAssign(j)
    \/ \E j \in OpIds : SaveOpenFail(j)
    \/ \E j \in OpIds : SaveDumpFail(j)
    \/ \E j \in OpIds : SaveReplaceFail(j)
    \/ \E j \in OpIds : LoadReadFail(j)
    \/ \E i \in OpIds : Complete(i)
    \/ \E i \in OpIds : Cancel(i)

Spec == Init /\ [][Next]_vars

TypeOK ==
    /\ lock \in 0..MaxOps
    /\ Len(ops) <= MaxOps
    /\ \A i \in 1..Len(ops) : ops[i].status \in InFlight \cup Ended
    /\ \A j \in OpIds : jobs[j].pc \in {"none", "pending", "opened", "dumped", "read", "done", "failed"}
    /\ Cardinality(DictKeys(data)) = Len(data)


(* ------------------------- callers that only put ---------------------- *)
\* Keys and values of the puts, all encodable; the keys' slots number four.
PutKeys == LookupKeys \cup {PyStr("a"), PyStr("b")}
PutValues == {PyInt(1), PyStr("x")}

\* put(key, value) on a key whose slot no earlier put addressed; the log
\* notes whether the put found the lock taken by a put still in flight
PutLogged(key, value) ==
    /\ \A n \in 1..Len(log) : Str(log[n].key) # Str(key)
    /\ Put(key, value)
    /\ log' = Append(log, [key |-> key, value |-> value, queued |-> ~LockFree])

PutsNext ==
    \/ \E key \in PutKeys, value \in PutValues : PutLogged(key, value)
    \/ \E j \in OpIds : SaveOpen(j)
    \/ \E j \in OpIds : SaveDump(j)
    \/ \E j \in OpIds : SaveReplace(j)
    \/ \E i \in OpIds : Complete(i)

\* the store under callers that issue puts on distinct keys, concurrently or
\* not, with no filesystem failure and no cancellation
PutsSpec == Init /\ [][PutsNext]_vars

(* ------------------------------ the claims ---------------------------- *)
\* str(key) as Python defines it: the decimal digits of an int, a str itself
Slot(key) == PyStr(IF key.kind = "int" THEN IntToStr(key.n) ELSE key.s)

\* the dict a fresh store constructed on a path holding file f gets
FreshDict(f) == IF f.exists /\ WellFormed(f.text) THEN ParseText(f.text) ELSE EmptyDict
\* file f holds key mapped to value
FileMaps(f, key, value) ==
    /\ f.exists
    /\ WellFormed(f.text)
    /\ DictHas(FreshDict(f), Slot(key))
    /\ DictGet(FreshDict(f), Slot(key)) = value
\* dict d holds key mapped to value
DictMaps(d, key, value) == DictHas(d, Slot(key)) /\ DictGet(d, Slot(key)) = value

\* this step is call i returning or raising with `status`
Returns(i, status) ==
    /\ i \in 1..Len(ops)
    /\ ops[i].status = "running"
    /\ ops'[i].status = status
\* this step is the issue of a new call
Issues == Len(ops') = Len(ops) + 1
Issued == ops'[Len(ops')]

\* C1: whenever put(k, v) returns successfully and no other call has put or
\* deleted str(k) since that put started, the target file then holds str(k)
\* mapped to v (a fresh store on the path gets v), in every interleaving,
\* concurrent load()/save() and cancelled calls included.
C1_DurabilityOnReturn ==
    [][\A i \in OpIds :
          (Returns(i, "ok") /\ ops[i].name = "put" /\ ~ops[i].hit)
             => FileMaps(disk', ops[i].key, ops[i].value)]_vars

\* C2: under callers that only put, on pairwise distinct keys: no call ends
\* with an error, a call in flight can always proceed, and once every call
\* has returned both self._data and the file hold every put key with its value.
C2_ConcurrentPutsLoseNoWrite ==
    /\ \A i \in 1..Len(ops) : ops[i].status \in InFlight \cup {"ok"}
    /\ (\E i \in 1..Len(ops) : ops[i].status \in InFlight)
          => ENABLED (\/ \E j \in OpIds : SaveOpen(j) \/ SaveDump(j) \/ SaveReplace(j)
                      \/ \E i \in OpIds : Complete(i))
    /\ (\A i \in 1..Len(ops) : ops[i].status = "ok")
          => \A n \in 1..Len(log) :
                /\ DictMaps(data, log[n].key, log[n].value)
                /\ FileMaps(disk, log[n].key, log[n].value)

\* two puts were in flight together, and all have returned
C2_Witness ==
    /\ Len(log) >= 2
    /\ \E n \in 1..Len(log) : log[n].queued
    /\ Len(ops) = Len(log)
    /\ \A i \in 1..Len(ops) : ops[i].status = "ok"


\* the position of run j in an order
Pos(order, j) == CHOOSE n \in 1..Len(order) : order[n] = j
\* this step is the replace of the target by the _save run of call j
Replaces(j) == jobs[j].pc = "dumped" /\ renamed' = Append(renamed, j)
\* the runs whose _save or _load body is executing: started, not finished
Executing == {j \in OpIds : jobs[j].pc \in {"opened", "dumped", "read"}}

\* C3: the target is always absent or the complete serialization of a value
\* self._data has had; only a _save's replace changes it, and sets it to the
\* complete document of that run's copy (so up to its replace a save leaves
\* the target as it was).
C3_AtomicSnapshot ==
    /\ [](\/ ~disk.exists
          \/ \E m \in history : CanDump(m) /\ disk.text = DumpText(m))
    /\ [][disk' # disk =>
            \E j \in OpIds : /\ IsSave(j)
                             /\ Replaces(j)
                             /\ CanDump(jobs[j].snap)
                             /\ disk' = File(DumpText(jobs[j].snap))]_vars

\* a temporary file is half-written while the target, replaced before, is whole
C3_Witness ==
    /\ renamed # <<>>
    /\ disk.exists /\ disk # origin
    /\ \E j \in OpIds : tmp[j].exists /\ ~WellFormed(tmp[j].text)

\* C4: at most one _save or _load body executes at any time, cancelled
\* calls included.
C4_OneDiskOperationAtATime == Cardinality(Executing) <= 1

\* C5: the target is never half-written; a cancelled call holds neither the
\* lock nor a place in its queue; and the _save run of a cancelled call does
\* not replace the target by a different document made from a copy taken
\* before the copy of the document now there, written by a save started
\* after it.
C5_CancellationSafety ==
    /\ [](disk.exists => WellFormed(disk.text))
    /\ [](\A i \in 1..Len(ops) :
            ops[i].status = "cancelled"
               => lock # i /\ \A n \in 1..Len(waiters) : waiters[n] # i)
    /\ [][\A j \in OpIds :
            (Replaces(j) /\ ops[j].status = "cancelled")
               => ~(/\ renamed # <<>>
                    /\ renamed[Len(renamed)] > j
                    /\ Pos(copied, j) < Pos(copied, renamed[Len(renamed)])
                    /\ disk' # disk)]_vars

\* C6: every key of self._data is a str; get, contains and item lookup of a
\* key read the slot str(key); a put leaves its value in the slot str(key)
\* and a delete empties the slot str(key).
C6_KeyNormalization ==
    /\ [](\A k \in DictKeys(data) : k.kind = "str")
    /\ [](\A key \in LookupKeys :
            /\ Contains(key) = DictHas(data, Slot(key))
            /\ Contains(key) => /\ Get(key) = DictGet(data, Slot(key))
                                /\ GetItem(key) = DictGet(data, Slot(key))
            /\ ~Contains(key) => Get(key) = Missing)
    /\ [][Issues =>
            /\ Issued.name = "put" => DictMaps(data', Issued.key, Issued.value)
            /\ (Issued.name = "delete" /\ Issued.status \in InFlight)
                  => ~DictHas(data', Slot(Issued.key))]_vars

\* a put with the int key 5 has acted: get("5") and get(5) return its value
C6_Witness ==
    \E i \in 1..Len(ops) :
        /\ ops[i].name = "put" /\ ops[i].key = PyInt(5)
        /\ Get(PyStr("5")) = ops[i].value
        /\ Get(PyInt(5)) = ops[i].value

\* C7: a call ends at its issue only by KeyError; a delete goes on to save
\* only if its slot is present; a delete that raises KeyError found its slot
\* absent and changes neither self._data, the files, the lock, its queue nor
\* the executor's runs.
C7_DeleteAbsentKey ==
    [][Issues =>
         /\ Issued.status \in InFlight \cup {"KeyError"}
         /\ (Issued.name = "delete" /\ Issued.status \in InFlight)
               => DictHas(data, Slot(Issued.key))
         /\ Issued.status = "KeyError"
               => /\ Issued.name = "delete"
                  /\ ~DictHas(data, Slot(Issued.key))
                  /\ UNCHANGED <<data, disk, tmp, lock, waiters, jobs>>]_vars

\* a delete raised KeyError while another call held the lock
C7_Witness ==
    /\ lock # 0
    /\ \E i \in 1..Len(ops) : ops[i].status = "KeyError" /\ lock < i

\* C8: a delete of a present key removes exactly the slot str(key) (size one
\* less, every other key as it was); when it returns successfully and no
\* other call's run has brought str(key) back meanwhile (a put of the key, a
\* _load assigning a dict with the key, a replace of the target by a document
\* with the key after the delete's own replace), contains(key) is false and
\* the file does not hold str(key).
C8_DeleteRemovesDurably ==
    [][/\ (Issues /\ Issued.name = "delete" /\ Issued.status \in InFlight)
            => /\ ~DictHas(data', Slot(Issued.key))
               /\ Size' = Size - 1
               /\ \A k \in DictKeys(data) \ {Slot(Issued.key)} :
                     DictHas(data', k) /\ DictGet(data', k) = DictGet(data, k)
       /\ \A i \in OpIds :
            (Returns(i, "ok") /\ ops[i].name = "delete" /\ ~ops[i].hit)
               => /\ ~Contains(ops[i].key)'
                  /\ disk'.exists /\ WellFormed(disk'.text)
                  /\ ~DictHas(FreshDict(disk'), Slot(ops[i].key))]_vars

\* a delete whose key nobody brought back is about to return successfully,
\* its key gone from self._data and from the file
C8_Witness ==
    \E i \in 1..Len(ops) :
        /\ ops[i].name = "delete" /\ ops[i].status = "running" /\ ~ops[i].hit
        /\ jobs[i].pc = "done"
        /\ DictHas(FreshDict(origin), Slot(ops[i].key))
        /\ ~Contains(ops[i].key)
        /\ ~DictHas(FreshDict(disk), Slot(ops[i].key))

\* C9: on a path with no file the store starts with an empty self._data and
\* the target stays absent until a _save has replaced it, whatever loads ran.
C9_MissingFileBootstrap ==
    ~origin.exists =>
        /\ ops = <<>> => data = EmptyDict
        /\ renamed = <<>> => ~disk.exists

\* no file at construction, a load() has run to its end, a save has opened
\* its temporary file, and the target is still absent
C9_Witness ==
    /\ ~origin.exists /\ ~disk.exists
    /\ \E j \in OpIds : IsLoad(j) /\ jobs[j].pc = "done"
    /\ \E j \in OpIds : tmp[j].exists

\* C10: a failing step of the _save run of a put or delete changes neither
\* the target nor self._data; the call raises iff its run failed, and
\* raising changes neither; a replace sets the target to the whole document
\* of the run's copy, equal to self._data if that did not change since.
C10_FailedSave ==
    [][/\ \A j \in OpIds :
            (/\ j <= Len(ops) /\ ops[j].name \in {"put", "delete"}
             /\ jobs[j].pc \in {"pending", "opened", "dumped"}
             /\ jobs'[j].pc = "failed")
               => /\ disk' = disk
                  /\ data' = data
                  /\ ~Replaces(j)
       /\ \A i \in OpIds :
            (Returns(i, "ok") \/ Returns(i, "error"))
               => /\ ops'[i].status = "error" <=> jobs[i].pc = "failed"
                  /\ disk' = disk
                  /\ data' = data
       /\ \A j \in OpIds :
            Replaces(j)
               => /\ disk' = File(DumpText(jobs[j].snap))
                  /\ data = jobs[j].snap => DictEq(FreshDict(disk'), data')]_vars

\* the save of a put has failed at its replace: the put is about to raise,
\* self._data holds the value, the target is as it was at construction
C10_Witness ==
    \E i \in 1..Len(ops) :
        /\ ops[i].name = "put" /\ ops[i].status = "running"
        /\ jobs[i].pc = "failed"
        /\ tmp[i].exists /\ WellFormed(tmp[i].text)
        /\ DictMaps(data, ops[i].key, ops[i].value)
        /\ ~FileMaps(disk, ops[i].key, ops[i].value)
        /\ disk = origin

(* --------------------- the file changed from outside ------------------ *)
\* Files that json.load rejects: an empty file, a document cut short.
CorruptFiles == {File(<<>>), File(<<LBrace, Tok("str", "k")>>)}
\* What another program (or a hand) may leave at the target path.
EditFiles == InitFiles \cup CorruptFiles

\* the file at self.file is replaced or removed by somebody else
ExternalWrite(f) ==
    /\ Constructed
    /\ disk # f
    /\ disk' = f
    /\ UNCHANGED <<data, tmp, lock, waiters, ops, jobs, faults, cancels, history,
                 copied, renamed, fixed, view, log>>

LoadNext ==
    \/ \E key \in CallKeys, value \in Values : Put(key, value) /\ UNCHANGED log
    \/ Load
    \/ \E j \in OpIds : SaveOpen(j)
    \/ \E j \in OpIds : SaveDump(j)
    \/ \E j \in OpIds : SaveReplace(j)
    \/ \E j \in OpIds : LoadRead(j)
    \/ \E j \in OpIds : LoadAssign(j)
    \/ \E i \in OpIds : Complete(i)
    \/ \E f \in EditFiles : ExternalWrite(f)

\* the store with puts and loads, its file also written from outside
LoadSpec == Init /\ [][LoadNext]_vars

\* this step is the _load run of call j going from `from` to `to`
LoadStep(j, from, to) ==
    /\ IsLoad(j)
    /\ ops[j].status = "running" /\ ops'[j].status = "running"
    /\ jobs[j].pc = from
    /\ jobs'[j].pc = to

\* C11: a load() decodes the whole file before it touches self._data, and
\* then assigns the decoded dict as the whole of self._data (no key that is
\* not in the document survives); when the decode fails no step of the call
\* changes self._data, and the call raises.  A call raises iff its run failed.
C11_LoadAllOrNothing ==
    [][/\ (Issues /\ Issued.name = "load") => data' = data
       /\ \A j \in OpIds :
            /\ LoadStep(j, "pending", "read")
                  => /\ data' = data
                     /\ ~disk.exists \/ WellFormed(disk.text)
                     /\ jobs'[j].snap = FreshDict(disk)
            /\ LoadStep(j, "read", "done")
                  => /\ data' = jobs[j].snap
                     /\ DictKeys(data') \subseteq DictKeys(jobs[j].snap)
            /\ (IsLoad(j) /\ jobs[j].pc = "pending" /\ jobs'[j].pc # "pending"
                /\ ops[j].status = "running" /\ ops'[j].status = "running"
                /\ disk.exists /\ ~WellFormed(disk.text))
                  => /\ jobs'[j].pc = "failed"
                     /\ data' = data
            /\ (Returns(j, "ok") \/ Returns(j, "error")) /\ ops[j].name = "load"
                  => /\ data' = data
                     /\ ops'[j].status = "error" <=> jobs[j].pc = "failed"]_vars

\* a load() run on a corrupt file has failed and the call is about to raise;
\* self._data still holds what a put stored before
C11_Witness ==
    \E j \in OpIds :
        /\ IsLoad(j) /\ jobs[j].pc = "failed"
        /\ j <= Len(ops) /\ ops[j].status = "running"
        /\ disk.exists /\ ~WellFormed(disk.text)
        /\ data # EmptyDict /\ data # FreshDict(origin)

(* ------------------- construction on whatever file -------------------- *)
\* the store constructed on a path that holds no file, a document, or a
\* file json.load rejects
ConstructSpec == InitOn(EditFiles, {TargetDir}) /\ [][Next]_vars

\* C12: constructing on a file that exists and is not a well-formed document
\* raises JSONDecodeError: no store comes into being (no call is ever issued
\* on one, nothing runs), and the file stays as it was.
C12_CorruptFileFatal ==
    (origin.exists /\ ~WellFormed(origin.text)) =>
        /\ LoadResult(origin).err = "JSONDecodeError"
        /\ ~Constructed
        /\ disk = origin
        /\ ops = <<>>
        /\ \A j \in OpIds : jobs[j] = IdleJob /\ ~tmp[j].exists

\* construction was tried on a document cut short: the file is still there
C12_Witness ==
    /\ origin \in CorruptFiles
    /\ origin.text # <<>>
    /\ disk = origin
    /\ ~Constructed

(* ------------------------ one call after another ---------------------- *)
\* no call is in flight
Quiet == \A i \in 1..Len(ops) : ops[i].status \notin InFlight

\* Values json can represent, among them a number and the string of its digits.
RoundValues == {PyInt(1), PyInt(10), PyStr("1")}

RoundNext ==
    \/ \E key \in PutKeys, value \in RoundValues :
          Quiet /\ Put(key, value) /\ UNCHANGED log
    \/ \E key \in CallKeys : Quiet /\ Delete(key)
    \/ Quiet /\ Save
    \/ Quiet /\ Load
    \/ \E j \in OpIds : SaveOpen(j)
    \/ \E j \in OpIds : SaveDump(j)
    \/ \E j \in OpIds : SaveReplace(j)
    \/ \E j \in OpIds : LoadRead(j)
    \/ \E j \in OpIds : LoadAssign(j)
    \/ \E i \in OpIds : Complete(i)

\* the store used by one caller that awaits each call before the next, with
\* no filesystem failure: self._data changes only when a call is issued
RoundSpec == Init /\ [][RoundNext]_vars

\* C13: when a save() returns successfully, what a fresh store would load
\* from the file equals self._data; and a load() that directly follows a
\* successful save assigns a dict equal to the one self._data held.
C13_RoundTrip ==
    [][\A j \in OpIds :
          /\ (Returns(j, "ok") /\ IsSave(j))
                => /\ LoadResult(disk').err = "none"
                   /\ DictEq(LoadResult(disk').dict, data')
                   /\ data' = data
          /\ (LoadStep(j, "read", "done") /\ j >= 2 /\ ops[j - 1].status = "ok"
              /\ renamed # <<>> /\ renamed[Len(renamed)] = j - 1)
                => /\ DictEq(data', data)
                   /\ \A k \in DictKeys(data) : DictGet(data', k).kind = DictGet(data, k).kind]_vars

\* a load() directly after a successful save has assigned; the dict holds a
\* number and a string of digits
C13_Witness ==
    \E j \in OpIds :
        /\ j >= 2 /\ j <= Len(ops)
        /\ IsLoad(j) /\ jobs[j].pc = "done" /\ ops[j].status = "running"
        /\ ops[j - 1].status = "ok"
        /\ renamed # <<>> /\ renamed[Len(renamed)] = j - 1
        /\ \E k \in DictKeys(data) : DictGet(data, k) = PyInt(1)
        /\ \E k \in DictKeys(data) : DictGet(data, k) = PyStr("1")

(* ------------------------- a caller keeps all() ----------------------- *)
\* d = store.all(): `return self._data`, the dict object itself
TakeAll ==
    /\ Constructed
    /\ ~view.held
    /\ view' = [held |-> TRUE, alias |-> TRUE, dict |-> All]
    /\ UNCHANGED <<data, disk, tmp, lock, waiters, ops, jobs, faults, cancels, history,
                 copied, renamed, fixed, log>>

\* d[key] = value by the caller, on the dict it got from all(): self._data
\* changes with it as long as both are the same object
ViewSet(key, value) ==
    /\ view.held
    /\ view' = [view EXCEPT !.dict = DictSet(view.dict, key, value)]
    /\ view'.dict # view.dict
    /\ data' = IF view.alias THEN view'.dict ELSE data
    /\ history' = history \cup {data'}
    /\ UNCHANGED <<disk, tmp, lock, waiters, ops, jobs, faults, cancels,
                 copied, renamed, fixed, log>>

ViewNext ==
    \/ \E key \in CallKeys, value \in Values : Put(key, value) /\ UNCHANGED log
    \/ \E key \in CallKeys : Delete(key)
    \/ Load
    \/ \E j \in OpIds : SaveOpen(j)
    \/ \E j \in OpIds : SaveDump(j)
    \/ \E j \in OpIds : SaveReplace(j)
    \/ \E j \in OpIds : LoadRead(j)
    \/ \E j \in OpIds : LoadAssign(j)
    \/ \E i \in OpIds : Complete(i)
    \/ TakeAll
    \/ \E value \in Values : ViewSet(PyStr("v"), value)

\* the store with a caller that keeps, and may change, what all() returned
ViewSpec == Init /\ [][ViewNext]_vars

\* this step belongs to a call of the store (its issue, or a step of a run)
StoreStep == Issues \/ jobs' # jobs \/ ops' # ops

\* C14: no step of a put, delete or load changes the dict a caller got from
\* all(), and a change the caller makes to that dict changes neither
\* self._data nor, with it, what a later save writes.
C14_AllReadOnlySnapshot ==
    [][view.held =>
         /\ StoreStep => view'.dict = view.dict
         /\ (~StoreStep /\ view'.dict # view.dict) => data' = data]_vars

(* --------------------- where the temporary file goes ------------------ *)
\* the store used by a process running in any directory
DirSpec == InitOn(InitFiles, Dirs) /\ [][Next]_vars

\* atomic_name is f"{uuid.uuid4()}.tmp": a fresh name for each run of _save
\* (the run's own), with no directory part, so open() and os.replace()
\* resolve it against the current working directory
TmpName(j) == j
TmpDir(j) == cwd

\* C15: the temporary file of every _save run is named apart from every
\* other run's, lies in the directory of the target whatever the working
\* directory is, and is what the run's replace moves over the target.
C15_TempFilePlacement ==
    /\ [](\A j \in OpIds : tmp[j].exists =>
            /\ TmpDir(j) = TargetDir
            /\ \A h \in OpIds \ {j} : TmpName(h) # TmpName(j))
    /\ [][\A j \in OpIds : Replaces(j) => disk' = tmp[j] /\ ~tmp'[j].exists]_vars

(* ------------------------------ progress ------------------------------ *)
FairNext ==
    \/ \E value \in Values : Put(PyStr("k"), value) /\ UNCHANGED log
    \/ Load
    \/ \E j \in OpIds : SaveOpen(j)
    \/ \E j \in OpIds : SaveDump(j)
    \/ \E j \in OpIds : SaveReplace(j)
    \/ \E j \in OpIds : LoadRead(j)
    \/ \E j \in OpIds : LoadAssign(j)
    \/ \E j \in OpIds : SaveOpenFail(j)
    \/ \E j \in OpIds : SaveDumpFail(j)
    \/ \E j \in OpIds : SaveReplaceFail(j)
    \/ \E j \in OpIds : LoadReadFail(j)
    \/ \E i \in OpIds : Complete(i)
    \/ \E i \in OpIds : Cancel(i)
    \/ ExternalWrite(File(<<>>))

\* the executor's threads run what they were handed, statement by statement,
\* and the event loop resumes a call whose future is done
Fairness ==
    \A j \in OpIds :
        /\ WF_vars(SaveOpen(j))
        /\ WF_vars(SaveDump(j))
        /\ WF_vars(SaveReplace(j))
        /\ WF_vars(LoadRead(j))
        /\ WF_vars(LoadAssign(j))
        /\ WF_vars(Complete(j))

\* the store with puts and loads under every failure (filesystem, encoding,
\* a file emptied from outside, cancellation), scheduled fairly
FairSpec == Init /\ [][FairNext]_vars /\ Fairness

\* C16: a call that has ended, however it ended, does not hold the lock; the
\* lock is held only by a call awaiting its run; and every call issued
\* eventually returns or raises.
C16_LockReleaseAndProgress ==
    /\ [](\A i \in 1..Len(ops) : ops[i].status \in Ended => lock # i)
    /\ [](lock # 0 => lock <= Len(ops) /\ ops[lock].status = "running")
    /\ \A i \in OpIds :
          (i <= Len(ops) /\ ops[i].status \in InFlight)
             ~> (i <= Len(ops) /\ ops[i].status \in Ended)

\* a call has raised and the call that queued behind it now holds the lock,
\* its run handed to the executor
C16_Witness ==
    \E i \in 1..Len(ops) :
        /\ ops[i].status = "error"
        /\ lock > i
        /\ ops[lock].status = "running"
        /\ jobs[lock].pc = "pending"

(* ------------------------------ quiescence ---------------------------- *)
\* the calls that ran a save or a load to its end (the lock serves them in
\* the order of their issue), and the last of them
Saved == {i \in 1..Len(ops) : ops[i].status \in {"ok", "error"}}
LastSaved == CHOOSE i \in Saved : \A h \in Saved : h <= i

\* the file holds exactly dict d: the document of d, or no file for no item
FileHolds(f, d) ==
    IF f.exists THEN WellFormed(f.text) /\ DictEq(ParseText(f.text), d)
    ELSE d = EmptyDict

\* C17: when no call is in flight, none was cancelled, and the last save or
\* load to complete (the constructor's load when there is none) succeeded,
\* the file holds exactly self._data.
C17_QuiescentConsistency ==
    (/\ Quiet
     /\ \A i \in 1..Len(ops) : ops[i].status # "cancelled"
     /\ Saved # {} => ops[LastSaved].status = "ok")
        => FileHolds(disk, data)

\* quiescent after a put whose save failed and a load that succeeded: the
\* put's value is in neither self._data nor the file
C17_Witness ==
    /\ Quiet
    /\ Len(ops) = 2
    /\ ops[1].status = "error" /\ ops[2].status = "ok"
    /\ disk.exists
    /\ faults = 1
    /\ FileHolds(disk, data)

(* --------------------------- load, no file ---------------------------- *)
\* C18: a _load that finds no file at self.file (and meets no other
\* filesystem failure) does not fail: it comes away with the empty dict and
\* creates no file; its assignment makes self._data that dict, whatever
\* self._data held; and the load() returns successfully.
C18_LoadAbsentFileResets ==
    [][\A j \in OpIds :
          /\ (IsLoad(j) /\ jobs[j].pc = "pending" /\ jobs'[j].pc # "pending"
              /\ ops[j].status = "running" /\ ops'[j].status = "running"
              /\ faults' = faults /\ ~disk.exists)
                => /\ jobs'[j].pc = "read"
                   /\ jobs'[j].snap = EmptyDict
                   /\ ~disk'.exists
          /\ LoadStep(j, "read", "done") => data' = jobs[j].snap
          /\ (Returns(j, "ok") \/ Returns(j, "error")) /\ IsLoad(j) /\ jobs[j].pc = "done"
                => ops'[j].status = "ok" /\ data' = data]_vars

\* no file, a put whose save failed left its entry in self._data, and the
\* load() issued after it has emptied self._data and is about to return
C18_Witness ==
    /\ ~origin.exists /\ ~disk.exists
    /\ Len(ops) = 2
    /\ ops[1].status = "error"
    /\ \E m \in history : m # EmptyDict
    /\ IsLoad(2) /\ jobs[2].pc = "done" /\ ops[2].status = "running"
    /\ data = EmptyDict

(* =========================== lifesaver.load_list ====================== *)
\* A path, a module name: the sequence of its characters.
\* the strings of the source, character by character
PYC == <<".", "p", "y", "c">>
LOG == <<".", "l", "o", "g">>
INI == <<".", "i", "n", "i">>
DS_STORE == <<".", "D", "S", "_", "S", "t", "o", "r", "e">>
DB == <<".", "d", "b">>
PYCACHE == <<"_", "_", "p", "y", "c", "a", "c", "h", "e", "_", "_">>
A_PY == <<"a", ".", "p", "y">>
A == <<"a">>
B_PY == <<"b", ".", "p", "y">>
C_PYC == <<"c", ".", "p", "y", "c">>
E == <<"e">>
DOT == <<".">>
F_TXT == <<"f", ".", "t", "x", "t">>
SLASH == <<"/">>
PERIOD == <<".">>
PY == <<".", "p", "y">>

\* Directory entries listed by one build, at most.
MaxEntries == 2

FORBIDDEN_EXTENSIONS == {PYC, LOG, INI, DS_STORE, DB}
FORBIDDEN_NAMES == {PYCACHE}

\* Names a directory of extensions may hold, in the order iterdir lists
\* them: a package, a module of the same name, another module, a compiled
\* file, the cache directory.
EntryNames == <<A, A_PY, B_PY, C_PYC, PYCACHE>>
\* Directories build is called on, and a path that is no directory.
ExtDirs == {E, DOT}
NotADir == F_TXT

\* str.replace(old, new): every occurrence, left to right, old not empty
RECURSIVE Replace(_, _, _)
Replace(s, old, new) ==
    IF Len(s) < Len(old) THEN s
    ELSE IF SubSeq(s, 1, Len(old)) = old
         THEN new \o Replace(SubSeq(s, Len(old) + 1, Len(s)), old, new)
         ELSE <<Head(s)>> \o Replace(Tail(s), old, new)

\* str.endswith
EndsWith(s, suffix) ==
    /\ Len(s) >= Len(suffix)
    /\ SubSeq(s, Len(s) - Len(suffix) + 1, Len(s)) = suffix

transform_path(path) == Replace(Replace(path, SLASH, PERIOD), PY, <<>>)

filter_path(path) ==
    IF \E ext \in FORBIDDEN_EXTENSIONS : EndsWith(path, ext) THEN FALSE
    ELSE IF path \in FORBIDDEN_NAMES THEN FALSE
    ELSE TRUE

\* str(exts_path / name), as iterdir yields it: Path(".") adds no prefix
EntryPath(exts_path, name) ==
    IF exts_path = DOT THEN name ELSE exts_path \o SLASH \o name

\* what importlib.import_module(path) does: a module with setup, a module
\* without, or an exception
ImportOutcomes == {"setup", "no_setup", "raises"}

\* the list comprehension of lines 41-45 over the listing `entries`
Paths(exts_path, entries) ==
    LET all == [i \in 1..Len(entries) |-> EntryPath(exts_path, entries[i])]
        kept == SelectSeq(all, filter_path)
    IN  [i \in 1..Len(kept) |-> transform_path(kept[i])]

Elems(list) == {list[i] : i \in 1..Len(list)}

\* ext_filter that retains every extension that fails to import
ext_filter_retains(path, imports, old) ==
    IF imports[path] = "raises" THEN TRUE ELSE imports[path] = "setup"

\* ext_filter(path), with `old` the load list (self.data) as build found it
ext_filter(path, imports, old) ==
    IF imports[path] = "raises" THEN path \in Elems(old)
    ELSE imports[path] = "setup"

\* the listings iterdir may yield: some of the names
Listings ==
    {SelectSeq(EntryNames, LAMBDA name : name \in S) :
        S \in {T \in SUBSET Elems(EntryNames) : Cardinality(T) <= MaxEntries}}

\* build(exts_path): nothing changes unless exts_path is a directory
Build(exts_path, entries, imports) ==
    /\ IF exts_path \in ExtDirs
       THEN LET paths == Paths(exts_path, entries) IN
            load_list' = SelectSeq(paths, LAMBDA path : ext_filter(path, imports, load_list))
       ELSE load_list' = load_list
    /\ built' = [exts_path |-> exts_path, entries |-> entries, imports |-> imports]
    /\ UNCHANGED <<data, disk, tmp, lock, waiters, ops, jobs, faults, cancels, history,
                 copied, renamed, origin, cwd, view, log>>

BuildNext ==
    \E exts_path \in ExtDirs \cup {NotADir}, entries \in Listings :
        \E imports \in [Elems(Paths(exts_path, entries)) -> ImportOutcomes] :
            Build(exts_path, entries, imports)

\* a load list built again and again over directories whose content and
\* whose modules change between builds
BuildSpec == InitOn({NoFile}, {TargetDir}) /\ [][BuildNext]_vars

\* the paths of the entries of the last build that pass filter_path
Passing == {q \in {EntryPath(built.exts_path, built.entries[i]) : i \in 1..Len(built.entries)} :
               filter_path(q)}

\* C19: a build on a directory leaves in the load list exactly the
\* transformed paths of the entries that pass filter_path and that import
\* with a setup, or fail to import and were in the list before the build;
\* so one that fails and was not in the list, or imports without setup, is
\* out; a build on a path that is no directory leaves the list as it was.
C19_LoadListBuild ==
    [][(built' # built \/ load_list' # load_list) =>
          IF built'.exts_path \notin ExtDirs THEN load_list' = load_list
          ELSE /\ Elems(load_list') =
                    {transform_path(q) : q \in
                        {r \in Passing' :
                            \/ built'.imports[transform_path(r)] = "setup"
                            \/ /\ built'.imports[transform_path(r)] = "raises"
                               /\ transform_path(r) \in Elems(load_list)}}
               /\ \A r \in Passing' :
                     built'.imports[transform_path(r)] = "no_setup"
                        => transform_path(r) \notin Elems(load_list')]_vars

\* after a build on a directory the list holds an extension that failed to
\* import (it was there before), and not one that imported without setup
C19_Witness ==
    /\ built.exts_path \in ExtDirs
    /\ \E t \in Elems(load_list) : built.imports[t] = "raises"
    /\ \E r \in Passing : built.imports[transform_path(r)] = "no_setup"

=======================================================================
